---- MODULE Spec2Model ----
(***************************************************************************)
(* Model of src/main.py: the Gmail "warming" filter.                       *)
(*                                                                         *)
(* Time is counted in ticks of 1/13 second, so that the minimum interval   *)
(* 1 / 1.3 s of check_messages is exactly 10 ticks and 3600 s is 46800.     *)
(* A string (a Subject value, the tag) is a tuple of one-character strings. *)
(***************************************************************************)
EXTENDS Integers, Sequences, FiniteSets, TLC

None == "None"

\* ---------------------------------------------------------------- bounds
\* longest list of message ids handed to check_messages
MaxN == 31
\* longest list of ids handed to update_labels on its own
MaxIds == 2500

\* number of consecutive calls of the label-ensure step
EnsureCalls == 2
\* largest mailbox; mailboxes of 0..SmallMsgs, max_batch_len and MaxMsgs messages
MaxMsgs == 31
SmallMsgs == 4
\* durations of one batch.execute(), in ticks
BatchDurations == {0, 4, 10, 13}

\* ------------------------------------------------------- program constants
TWINE_TAG == <<"Y", "C", "E", "W", "F", "A", "F">>
max_batch_len == 30
\* 1 / max_requests_per_second = 1 / 1.3 s = 10 ticks of 1/13 s
MinInterval == 10
ChunkSize == 1000
\* 3600 s in ticks of 1/13 s
Period == 46800

\* durations of one messages().list call, in ticks: instant, or over an hour
ListDurations == {0, Period + 1}

\* ------------------------------------------------------------ python helpers
Max(a, b) == IF a >= b THEN a ELSE b
Min(a, b) == IF a <= b THEN a ELSE b

\* tag in value  (substring test of str)
Contains(value, tag) ==
    \E k \in 0..(Len(value) - Len(tag)) :
        SubSeq(value, k + 1, k + Len(tag)) = tag

\* seq[i : j] for 0 <= i <= j
Slice(seq, i, j) == SubSeq(seq, i + 1, Min(j, Len(seq)))

Range(seq) == {seq[k] : k \in 1..Len(seq)}

\* ------------------------------------------------------- remote message detail
Hdr(n, v) == [name |-> n, value |-> v]

FromHdr == Hdr("From", <<"a", "@", "b">>)

SubjectValues ==
    << TWINE_TAG,
       <<"R", "e", ":", " ">> \o TWINE_TAG \o <<" ", "x">>,
       <<"H", "i">>,
       <<"Y", "C", "E", "W", "F", "A">>,
       <<"y", "c", "e", "w", "f", "a", "f">>,
       <<>> >>

\* header lists of the messages the remote can hold
TaggedKinds ==
    << <<FromHdr, Hdr("Subject", SubjectValues[1])>>,
       <<Hdr("Subject", SubjectValues[2])>>,
       <<Hdr("Subject", SubjectValues[2]), FromHdr>> >>

PlainKinds ==
    << <<Hdr("Subject", SubjectValues[3]), FromHdr>>,
       <<FromHdr>>,
       <<Hdr("Subject", SubjectValues[4])>>,
       <<>>,
       <<FromHdr, Hdr("Subject", SubjectValues[5])>>,
       <<Hdr("Subject", SubjectValues[6])>> >>

Layouts == {"tagged", "plain", "mixed"}

\* the headers the remote returns for message id under a mailbox layout
HeadersOf(layout, id) ==
    CASE layout = "tagged" -> TaggedKinds[(id % 3) + 1]
      [] layout = "plain"  -> PlainKinds[(id % 6) + 1]
      [] OTHER -> IF id % 2 = 1 THEN TaggedKinds[((id \div 2) % 3) + 1]
                                ELSE PlainKinds[((id \div 2) % 6) + 1]

\* ----------------------------------------------------------- message bodies
\* the alphabet of base64.urlsafe_b64decode
UrlSafeAlphabet ==
    <<"A", "B", "C", "D", "E", "F", "G", "H", "I", "J", "K", "L", "M", "N",
       "O", "P", "Q", "R", "S", "T", "U", "V", "W", "X", "Y", "Z", "a", "b",
       "c", "d", "e", "f", "g", "h", "i", "j", "k", "l", "m", "n", "o", "p",
       "q", "r", "s", "t", "u", "v", "w", "x", "y", "z", "0", "1", "2", "3",
       "4", "5", "6", "7", "8", "9", "-", "_">>

\* the characters of the byte values 32..126 (34, 92 and 96 by name)
Ascii ==
    <<" ", "!", "QUOTE", "#", "$", "%", "&", "'", "(", ")", "*", "+", ",",
       "-", ".", "/", "0", "1", "2", "3", "4", "5", "6", "7", "8", "9", ":",
       ";", "<", "=", ">", "?", "@", "A", "B", "C", "D", "E", "F", "G", "H",
       "I", "J", "K", "L", "M", "N", "O", "P", "Q", "R", "S", "T", "U", "V",
       "W", "X", "Y", "Z", "[", "BACKSLASH", "]", "^", "_", "BACKTICK", "a", "b", "c", "d",
       "e", "f", "g", "h", "i", "j", "k", "l", "m", "n", "o", "p", "q", "r",
       "s", "t", "u", "v", "w", "x", "y", "z", "{", "|", "}", "~">>

B64Value(c) == (CHOOSE k \in 1..Len(UrlSafeAlphabet) : UrlSafeAlphabet[k] = c) - 1

Pow2(n) == IF n = 0 THEN 1 ELSE IF n = 6 THEN 64 ELSE IF n = 8 THEN 256
           ELSE IF n = 12 THEN 4096 ELSE IF n = 16 THEN 65536 ELSE 262144

\* base64.urlsafe_b64decode(data): the byte values of the payload
B64Decode(data) ==
    LET digits == SelectSeq(data, LAMBDA c : c # "=")
        sextet(k) == IF k <= Len(digits) THEN B64Value(digits[k]) ELSE 0
        group(g) == sextet(4 * g + 1) * Pow2(18) + sextet(4 * g + 2) * Pow2(12)
                        + sextet(4 * g + 3) * Pow2(6) + sextet(4 * g + 4)
    IN  [j \in 1..((Len(digits) * 6) \div 8) |->
            (group((j - 1) \div 3) \div Pow2(8 * (2 - ((j - 1) % 3)))) % 256]

\* bytes.decode("utf-8") of bytes in 32..126
Utf8Decode(bytes) == [j \in 1..Len(bytes) |-> Ascii[bytes[j] - 31]]

Part(mime, data) == [mimeType |-> mime, body |-> [data |-> data]]

\* the body parts of the messages the remote can hold
BodyKinds ==
    << <<Part("text/plain", <<"S", "G", "k", "g", "W", "U", "N", "F", "V", "0", "Z", "B", "R", "g",
                         "=", "=">>)>>,
       <<Part("image/png", <<"U", "E", "5", "H", "P", "w", "=", "=">>),
         Part("text/html",
              <<"P", "H", "A", "-", "W", "U", "N", "F", "V", "0", "Z", "B", "R", "j",
                  "w", "v", "c", "D", "4", "=">>)>>,
       <<Part("text/plain", <<"S", "G", "V", "s", "b", "G", "8", "=">>)>> >>

\* the parts the remote returns for message id
PartsOf(id) == BodyKinds[(id % 3) + 1]

\* users().messages().get(id): the (response, exception) pair of the callback
Fetch(layout, failing, id) ==
    IF id \in failing
    THEN [response |-> None, exception |-> "HttpError"]
    ELSE [response |-> [id |-> id,
                        payload |-> [headers |-> HeadersOf(layout, id),
                                     parts |-> PartsOf(id)]],
          exception |-> None]

\* ------------------------------------------------ check_if_message_is_warming
\* ScanHeaders without the test of the tag
RECURSIVE ScanHeaders_any(_, _, _)
ScanHeaders_any(headers, message_id, results) ==
    IF headers = <<>> THEN results
    ELSE IF Head(headers).name = "Subject"
         THEN Append(results, message_id)
         ELSE ScanHeaders_any(Tail(headers), message_id, results)

\* the for loop over the headers: the first header named Subject decides
RECURSIVE ScanHeaders(_, _, _)
ScanHeaders(headers, message_id, results) ==
    IF headers = <<>> THEN results
    ELSE IF Head(headers).name = "Subject"
         THEN IF Contains(Head(headers).value, TWINE_TAG)
              THEN Append(results, message_id)
              ELSE results
         ELSE ScanHeaders(Tail(headers), message_id, results)

\* --------------------------------------------------- check_body_for_warming
RECURSIVE check_body_for_warming(_, _)
check_body_for_warming(parts, tag) ==
    IF parts = <<>> THEN FALSE
    ELSE IF /\ Head(parts).mimeType \in {"text/plain", "text/html"}
            /\ Contains(Utf8Decode(B64Decode(Head(parts).body.data)), tag)
         THEN TRUE
         ELSE check_body_for_warming(Tail(parts), tag)

\* a classifier that falls back on the body when the Subject does not match
check_if_message_is_warming_body(message, results, exception) ==
    IF exception # None THEN results
    ELSE IF ScanHeaders(message.payload.headers, message.id, results) # results
         THEN ScanHeaders(message.payload.headers, message.id, results)
         ELSE IF check_body_for_warming(message.payload.parts, TWINE_TAG)
              THEN Append(results, message.id)
              ELSE results

check_if_message_is_warming(message, results, exception) ==
    IF exception # None THEN results
    ELSE ScanHeaders(message.payload.headers, message.id, results)

\* ------------------------------------------------------------- check_messages
\* batch.execute(): the callbacks of the batch run in the order of batch.add
\* results after the callbacks of requests lo+1..hi of the batch have run, in
\* the order of batch.add, on the results the earlier callbacks left; the
\* range is split so that the first half is evaluated before the second
RECURSIVE AfterCallbacks(_, _, _, _, _, _)
AfterCallbacks(lo, hi, batch, results, layout, failing) ==
    IF lo = hi THEN results
    ELSE IF hi = lo + 1
    THEN LET f == Fetch(layout, failing, batch[hi])
         IN  check_if_message_is_warming(f.response, results, f.exception)
    ELSE LET mid == (lo + hi) \div 2
             half == AfterCallbacks(lo, mid, batch, results, layout, failing)
         IN  IF Len(half) >= 0
             THEN AfterCallbacks(mid, hi, batch, half, layout, failing)
             ELSE half

\* a batch.execute() that returns when half of the callbacks have run
BatchExecute_early(batch, results, layout, failing) ==
    AfterCallbacks(0, Len(batch) \div 2, batch, results, layout, failing)

\* batch.execute(): every callback of the batch runs before it returns
BatchExecute(batch, results, layout, failing) ==
    AfterCallbacks(0, Len(batch), batch, results, layout, failing)

\* the locals of check_messages before the loop; executed, submitted and
\* throttle record the batch.execute() calls made, the time each was
\* submitted at and the throttle decisions taken
CMStart(now) ==
    [i |-> 0, batch |-> <<>>, results |-> <<>>, start_time |-> now, now |-> now,
     executed |-> <<>>, submitted |-> <<>>, throttle |-> <<>>]

\* a loop that never executes the batch it is filling
ExecuteInLoop_never(i) == FALSE

\* the condition of line 217
ExecuteInLoop(i) == i % max_batch_len = 0

\* a throttle that never sleeps
ThrottleSleep_none(elapsed) == 0

\* the sleep of the throttle, given end_time - start_time
ThrottleSleep(elapsed) ==
    IF elapsed < MinInterval THEN MinInterval - elapsed ELSE 0

\* one iteration of the for loop; d is the duration of batch.execute()
CMIter(cm, ids, layout, failing, d) ==
    LET batch1 == Append(cm.batch, ids[cm.i + 1])
    IN  IF ExecuteInLoop(cm.i)
        THEN LET end_time == cm.now + d
                 slept == ThrottleSleep(end_time - cm.start_time)
             IN  [i |-> cm.i + 1,
                  batch |-> <<>>,
                  results |-> BatchExecute(batch1, cm.results, layout, failing),
                  start_time |-> end_time + slept,
                  now |-> end_time + slept,
                  executed |-> Append(cm.executed, batch1),
                  submitted |-> Append(cm.submitted, cm.now),
                  throttle |-> Append(cm.throttle,
                      [start |-> cm.start_time, finished |-> end_time,
                       slept |-> slept])]
        ELSE [cm EXCEPT !.i = cm.i + 1, !.batch = batch1]

ExecuteAfterLoop(n) == n % max_batch_len # 0

\* the statements after the loop
CMFinal(cm, ids, layout, failing, d) ==
    IF ExecuteAfterLoop(Len(ids))
    THEN [cm EXCEPT !.results = BatchExecute(cm.batch, cm.results, layout, failing),
                    !.batch = <<>>,
                    !.now = cm.now + d,
                    !.executed = Append(cm.executed, cm.batch),
                    !.submitted = Append(cm.submitted, cm.now)]
    ELSE cm

\* the locals after iterations lo+1..hi of the for loop, entered with locals
\* cm; the range is split so that the first half is evaluated before the second
RECURSIVE CMRange(_, _, _, _, _, _, _)
CMRange(lo, hi, cm, ids, layout, failing, d) ==
    IF lo = hi THEN cm
    ELSE IF hi = lo + 1 THEN CMIter(cm, ids, layout, failing, d)
    ELSE LET mid == (lo + hi) \div 2
             half == CMRange(lo, mid, cm, ids, layout, failing, d)
         IN  IF half.i = mid
             THEN CMRange(mid, hi, half, ids, layout, failing, d)
             ELSE half

\* the locals when the for loop is left
CMAfterLoop(ids, layout, failing, now, d) ==
    CMRange(0, Len(ids), CMStart(now), ids, layout, failing, d)

\* a whole call of check_messages; its locals at the return statement
check_messages(ids, layout, failing, now, d) ==
    CMFinal(CMAfterLoop(ids, layout, failing, now, d), ids, layout, failing, d)

\* get_ids_to_update: messages is the list of ids of the listed page
get_ids_to_update(messages, layout, failing, now, d) ==
    LET cm == check_messages(messages, layout, failing, now, d)
        all_ids == cm.results
    IN  [ids |-> SelectSeq(all_ids, LAMBDA x : x \in Int), cm |-> cm]

\* ------------------------------------------------------------- update_labels
\* ULBody with the slice one id short
ULBody_short(message_ids_, i, warming_label_id) ==
    [ids |-> Slice(message_ids_, i, i + ChunkSize - 1),
     removeLabelIds |-> <<"INBOX">>,
     addLabelIds |-> <<warming_label_id>>]

\* ULBody that adds the label by its name instead of the id it was given
ULBody_name(message_ids_, i, warming_label_id) ==
    [ids |-> Slice(message_ids_, i, i + ChunkSize),
     removeLabelIds |-> <<"INBOX">>,
     addLabelIds |-> <<"Warming">>]

\* ULBody that removes INBOX without adding a label
ULBody_noadd(message_ids_, i, warming_label_id) ==
    [ids |-> Slice(message_ids_, i, i + ChunkSize),
     removeLabelIds |-> <<"INBOX">>,
     addLabelIds |-> <<>>]

\* the body of the batchModify call issued at loop index i
ULBody(message_ids_, i, warming_label_id) ==
    [ids |-> Slice(message_ids_, i, i + ChunkSize),
     removeLabelIds |-> <<"INBOX">>,
     addLabelIds |-> <<warming_label_id>>]

\* range(0, len(message_ids), 1000): the index after i
ULStep(i) == i + ChunkSize

RECURSIVE ULCallsFrom(_, _, _)
ULCallsFrom(message_ids_, i, warming_label_id) ==
    IF i < Len(message_ids_)
    THEN <<ULBody(message_ids_, i, warming_label_id)>>
             \o ULCallsFrom(message_ids_, ULStep(i), warming_label_id)
    ELSE <<>>

\* the batchModify calls of a whole run of update_labels, in order
update_labels(message_ids_, warming_label_id) ==
    ULCallsFrom(message_ids_, 0, warming_label_id)

\* ------------------------------------------ add_warming_label_if_not_present
LabelIdPool == <<"Label_1", "Label_2", "Label_3", "Label_4", "Label_5">>

\* the id the remote gives to a created label: the first one not in use
FreshLabelId(labels) ==
    LET used == {labels[k].id : k \in 1..Len(labels)}
        k0 == CHOOSE k \in 1..Len(LabelIdPool) :
                  /\ LabelIdPool[k] \notin used
                  /\ \A j \in 1..(k - 1) : LabelIdPool[j] \in used
    IN  LabelIdPool[k0]

\* FindWarming that never finds the label
FindWarming_blind(labels) == None

\* next((label for label in labels if label["name"] == "Warming"), None)
RECURSIVE FindWarming(_)
FindWarming(labels) ==
    IF labels = <<>> THEN None
    ELSE IF Head(labels).name = "Warming" THEN Head(labels).id
         ELSE FindWarming(Tail(labels))

\* a run of add_warming_label_if_not_present in which no remote call fails:
\* the remote labels afterwards, the id returned, whether create was called
add_warming_label_if_not_present(labels) ==
    LET warming_label == FindWarming(labels)
    IN  IF warming_label = None
        THEN LET res == [id |-> FreshLabelId(labels), name |-> "Warming"]
             IN  [labels |-> Append(labels, res), id |-> res.id, created |-> TRUE]
        ELSE [labels |-> labels, id |-> warming_label, created |-> FALSE]

\* ===================================================================== state
VARIABLES
    layout,          \* which messages the remote mailbox holds
    message_ids,     \* check_messages: its argument
    failing,         \* ids whose fetch reports an error in this run
    cm,              \* check_messages: its locals
    cm_pc,           \* check_messages: "idle", "loop", "returned"
    ul_ids,          \* update_labels: its argument message_ids
    ul_label,        \* update_labels: its argument warming_label_id
    ul_i,            \* update_labels: loop index
    ul_calls,        \* update_labels: bodies of the batchModify calls issued
    ul_pc,           \* update_labels: "idle", "loop", "returned", "raised"
    el_labels,       \* the remote labels, in listing order
    el_returns,      \* ids returned by the calls of the label-ensure step
    el_creates,      \* per create call: was "Warming" in the listing
    el_pc,           \* "idle", "calling", "raised"
    pc,              \* main: position in the program
    client_secret_file,  \* does client_secret.json exist
    credentials_file,    \* does credentials.json exist
    force_historical,    \* args.force_historical
    has_credentials, \* main: has_credentials
    branch,          \* main: the branch of the if at lines 295-310 taken
    label_id,        \* main: label_id
    nmsgs,           \* remote: the mailbox holds messages 1..nmsgs
    msg_labels,      \* remote: the label ids of every message
    page_limit,      \* remote: most ids the remote puts in one page
    result,          \* the result of the last messages().list call
    ids_to_update,   \* the list returned by get_ids_to_update
    start_time,      \* main: start_time of the live iteration
    now,             \* the clock, re-based at every listing call
    sleep_arg,       \* the argument of the last time.sleep of main
    cleared,         \* the count printed in the last summary line
    error,           \* the call whose exception ended the process
    trace            \* calls of the sweep, or of the current live iteration

cmVars == <<layout, message_ids, failing, cm, cm_pc>>
ulVars == <<ul_ids, ul_label, ul_i, ul_calls, ul_pc>>
elVars == <<el_labels, el_returns, el_creates, el_pc>>
envVars == <<client_secret_file, force_historical, nmsgs, page_limit>>
mainVars == <<pc, credentials_file, has_credentials, branch, label_id,
              msg_labels, result, ids_to_update, start_time, now, sleep_arg,
              cleared, error, trace>>
vars == <<cmVars, ulVars, elVars, envVars, mainVars>>

CMIdle ==
    /\ layout = "plain" /\ message_ids = <<>> /\ failing = {}
    /\ cm = CMStart(0) /\ cm_pc = "idle"
ULIdle ==
    /\ ul_ids = <<>> /\ ul_label = None /\ ul_i = 0 /\ ul_calls = <<>>
    /\ ul_pc = "idle"
ELIdle ==
    /\ el_labels = <<>> /\ el_returns = <<>> /\ el_creates = <<>>
    /\ el_pc = "idle"
NoError == [call |-> None, at |-> None]
NoResult == [messages |-> <<>>, nextPageToken |-> <<>>]
MainIdle ==
    /\ pc = "idle" /\ client_secret_file = FALSE /\ credentials_file = FALSE
    /\ force_historical = FALSE /\ branch = None /\ label_id = None
    /\ nmsgs = 0 /\ msg_labels = <<>> /\ page_limit = 1 /\ result = NoResult
    /\ ids_to_update = <<>> /\ start_time = 0 /\ now = 0 /\ sleep_arg = 0
    /\ has_credentials = FALSE /\ cleared = 0
    /\ error = NoError /\ trace = <<>>

\* ------------------------------------------- check_messages, step by step
InitCheck ==
    /\ \E n \in 0..MaxN : message_ids = [k \in 1..n |-> k]
    /\ layout \in Layouts
    /\ failing \in {{}} \cup {{f} : f \in Range(message_ids)}
    /\ cm = CMStart(0)
    /\ cm_pc = "loop"
    /\ ULIdle /\ ELIdle /\ MainIdle

CM_Iteration ==
    /\ cm_pc = "loop"
    /\ cm.i < Len(message_ids)
    /\ \E d \in BatchDurations : cm' = CMIter(cm, message_ids, layout, failing, d)
    /\ UNCHANGED <<layout, message_ids, failing, cm_pc, ulVars, elVars, envVars, mainVars>>

CM_AfterLoop ==
    /\ cm_pc = "loop"
    /\ cm.i = Len(message_ids)
    /\ \E d \in BatchDurations : cm' = CMFinal(cm, message_ids, layout, failing, d)
    /\ cm_pc' = "returned"
    /\ UNCHANGED <<layout, message_ids, failing, ulVars, elVars, envVars, mainVars>>

NextCheck == CM_Iteration \/ CM_AfterLoop

SpecCheck == InitCheck /\ [][NextCheck]_vars

\* -------------------------------------------- update_labels, step by step
InitLabels ==
    /\ \E n \in 0..MaxIds : ul_ids = [k \in 1..n |-> k]
    /\ ul_label \in {"Label_1", "Label_2"}
    /\ ul_i = 0 /\ ul_calls = <<>> /\ ul_pc = "loop"
    /\ CMIdle /\ ELIdle /\ MainIdle

\* one batchModify(...).execute() that succeeds
UL_Call ==
    /\ ul_pc = "loop"
    /\ ul_i < Len(ul_ids)
    /\ ul_calls' = Append(ul_calls, ULBody(ul_ids, ul_i, ul_label))
    /\ ul_i' = ULStep(ul_i)
    /\ UNCHANGED <<ul_ids, ul_label, ul_pc, cmVars, elVars, envVars, mainVars>>

\* one batchModify(...).execute() that raises
UL_CallRaises ==
    /\ ul_pc = "loop"
    /\ ul_i < Len(ul_ids)
    /\ ul_calls' = Append(ul_calls, ULBody(ul_ids, ul_i, ul_label))
    /\ ul_pc' = "raised"
    /\ UNCHANGED <<ul_ids, ul_label, ul_i, cmVars, elVars, envVars, mainVars>>

UL_Return ==
    /\ ul_pc = "loop"
    /\ ul_i >= Len(ul_ids)
    /\ ul_pc' = "returned"
    /\ UNCHANGED <<ul_ids, ul_label, ul_i, ul_calls, cmVars, elVars, envVars, mainVars>>

NextLabels == UL_Call \/ UL_CallRaises \/ UL_Return

SpecLabels == InitLabels /\ [][NextLabels]_vars

\* ------------------------------- add_warming_label_if_not_present, in sequence
LabelPool ==
    << [id |-> "INBOX", name |-> "INBOX"],
       [id |-> "SENT", name |-> "SENT"],
       [id |-> "Label_1", name |-> "Work"],
       [id |-> "Label_2", name |-> "warming"],
       [id |-> "Label_3", name |-> "Warming"],
       [id |-> "Label_4", name |-> "Warming Up"] >>

\* the label listings the remote can start with: label names are unique
InitialLabels ==
    {SelectSeq(LabelPool, LAMBDA l : l.id \in S) :
        S \in SUBSET {LabelPool[k].id : k \in 1..Len(LabelPool)}}

HasWarming(labels) == \E k \in 1..Len(labels) : labels[k].name = "Warming"

InitEnsure ==
    /\ el_labels \in InitialLabels
    /\ el_returns = <<>> /\ el_creates = <<>> /\ el_pc = "calling"
    /\ CMIdle /\ ULIdle /\ MainIdle

\* what a successful run of the label-ensure step does to the remote labels
\* and to the record of its returns and create calls
EnsureEffect ==
    LET r == add_warming_label_if_not_present(el_labels)
    IN  /\ el_labels' = r.labels
        /\ el_returns' = Append(el_returns, r.id)
        /\ el_creates' = IF r.created
                         THEN Append(el_creates, [hadWarming |-> HasWarming(el_labels)])
                         ELSE el_creates

EL_Call ==
    /\ el_pc = "calling"
    /\ Len(el_returns) < EnsureCalls
    /\ EnsureEffect
    /\ UNCHANGED <<el_pc, cmVars, ulVars, envVars, mainVars>>

\* labels().list(...).execute() raises
EL_ListRaises ==
    /\ el_pc = "calling"
    /\ Len(el_returns) < EnsureCalls
    /\ el_pc' = "raised"
    /\ UNCHANGED <<el_labels, el_returns, el_creates, cmVars, ulVars, envVars, mainVars>>

\* labels().create(...).execute() raises
EL_CreateRaises ==
    /\ el_pc = "calling"
    /\ Len(el_returns) < EnsureCalls
    /\ add_warming_label_if_not_present(el_labels).created
    /\ el_creates' = Append(el_creates, [hadWarming |-> HasWarming(el_labels)])
    /\ el_pc' = "raised"
    /\ UNCHANGED <<el_labels, el_returns, cmVars, ulVars, envVars, mainVars>>

NextEnsure == EL_Call \/ EL_ListRaises \/ EL_CreateRaises

SpecEnsure == InitEnsure /\ [][NextEnsure]_vars

\* ================================================================== main
MailboxSizes == (0..SmallMsgs) \cup {max_batch_len, MaxMsgs}
PageLimits == {2, max_batch_len, MaxMsgs}

\* messages().list: the page of the candidates that starts at the cursor;
\* a cursor is <<offset>>, an absent cursor is <<>>
ListPage(candidates, pageToken, limit) ==
    LET off == IF pageToken = <<>> THEN 0 ELSE pageToken[1]
    IN  [messages |-> Slice(candidates, off, off + limit),
         nextPageToken |-> IF off + limit < Len(candidates)
                           THEN <<off + limit>> ELSE <<>>]

\* the ids the query of the historical sweep matches
AllMail == [k \in 1..nmsgs |-> k]
\* the ids that carry the INBOX label
InboxMail == SelectSeq(AllMail, LAMBDA id : "INBOX" \in msg_labels[id])

\* the remote applies one batchModify body
ApplyBody(labels, body) ==
    [id \in DOMAIN labels |->
        IF id \in Range(body.ids)
        THEN (labels[id] \ Range(body.removeLabelIds)) \cup Range(body.addLabelIds)
        ELSE labels[id]]

RECURSIVE ApplyCalls(_, _)
ApplyCalls(labels, calls) ==
    IF calls = <<>> THEN labels
    ELSE ApplyCalls(ApplyBody(labels, Head(calls)), Tail(calls))

Event(op, token, ids, next) == [op |-> op, token |-> token, ids |-> ids, next |-> next]

Init ==
    /\ client_secret_file \in BOOLEAN
    /\ credentials_file \in BOOLEAN
    /\ force_historical \in BOOLEAN
    /\ nmsgs \in MailboxSizes
    /\ msg_labels = [id \in 1..nmsgs |-> {"INBOX"}]
    /\ page_limit \in PageLimits
    /\ layout \in Layouts
    /\ failing \in {{}} \cup {{f} : f \in {1, nmsgs} \cap (1..nmsgs)}
    /\ el_labels \in {SelectSeq(LabelPool, LAMBDA l : l.name # "Warming"), LabelPool}
    /\ el_returns = <<>> /\ el_creates = <<>> /\ el_pc = "idle"
    /\ message_ids = <<>> /\ cm = CMStart(0) /\ cm_pc = "idle"
    /\ ULIdle
    /\ pc = "main" /\ branch = None /\ label_id = None /\ result = NoResult
    /\ ids_to_update = <<>> /\ start_time = 0 /\ now = 0 /\ sleep_arg = 0
    /\ has_credentials = FALSE /\ cleared = 0
    /\ error = NoError /\ trace = <<>>

Crash(call) ==
    /\ pc' = "crashed"
    /\ error' = [call |-> call, at |-> pc]

\* lines 289-292
M_NoSecret ==
    /\ pc = "main"
    /\ ~client_secret_file
    /\ pc' = "exited"
    /\ UNCHANGED <<cmVars, ulVars, elVars, envVars, credentials_file, branch, has_credentials,
                   label_id, msg_labels, result, ids_to_update, start_time, now,
                   sleep_arg, cleared, error, trace>>

\* a start-up that ignores the force flag
Branch_noforce(has_creds, force) == IF ~has_creds THEN "login" ELSE "skip"

\* the branch of the if at lines 295, 304 and 308
Branch(has_creds, force) ==
    IF ~has_creds THEN "login"
    ELSE IF force THEN "forced" ELSE "skip"

\* lines 293-310: the branch taken
M_Start ==
    /\ pc = "main"
    /\ client_secret_file
    /\ has_credentials' = credentials_file
    /\ branch' = Branch(has_credentials', force_historical)
    /\ pc' = IF branch' = "login" THEN "login" ELSE "ensure"
    /\ UNCHANGED <<cmVars, ulVars, elVars, envVars, credentials_file,
                   label_id, msg_labels, result, ids_to_update, start_time, now,
                   sleep_arg, cleared, error, trace>>

\* lines 297-301
M_Login ==
    /\ pc = "login"
    /\ credentials_file' = TRUE
    /\ pc' = "ensure"
    /\ UNCHANGED <<cmVars, ulVars, elVars, envVars, branch, has_credentials,
                   label_id, msg_labels, result, ids_to_update, start_time, now,
                   sleep_arg, cleared, error, trace>>

M_LoginRaises ==
    /\ pc = "login"
    /\ Crash("login")
    /\ UNCHANGED <<cmVars, ulVars, elVars, envVars, credentials_file, branch, has_credentials,
                   label_id, msg_labels, result, ids_to_update, start_time, now,
                   sleep_arg, cleared, trace>>

\* lines 302, 306, 310
M_Ensure ==
    /\ pc = "ensure"
    /\ EnsureEffect
    /\ label_id' = add_warming_label_if_not_present(el_labels).id
    /\ pc' = IF branch \in {"login", "forced"} THEN "hist_list_first" ELSE "live_list"
    /\ trace' = Append(trace, Event("ensure", <<>>, <<>>, <<>>))
    /\ UNCHANGED <<cmVars, ulVars, el_pc, envVars, credentials_file, branch, has_credentials,
                   msg_labels, result, ids_to_update, start_time, now,
                   sleep_arg, cleared, error>>

M_EnsureRaises ==
    /\ pc = "ensure"
    /\ Crash("labels")
    /\ UNCHANGED <<cmVars, ulVars, elVars, envVars, credentials_file, branch, has_credentials,
                   label_id, msg_labels, result, ids_to_update, start_time, now,
                   sleep_arg, cleared, trace>>

\* a listing call of the sweep with the given cursor
HistList(pageToken) ==
    /\ result' = ListPage(AllMail, pageToken, page_limit)
    /\ message_ids' = result'.messages
    /\ trace' = Append(trace, Event("list", pageToken, result'.messages,
                                    result'.nextPageToken))
    /\ now' = 0
    /\ pc' = "hist_classify"
    /\ UNCHANGED <<layout, failing, cm, cm_pc, ulVars, elVars, envVars,
                   credentials_file, branch, has_credentials, label_id, msg_labels, ids_to_update,
                   start_time, sleep_arg, cleared, error>>

\* lines 139-149
M_HistListFirst ==
    /\ pc = "hist_list_first"
    /\ HistList(<<>>)

\* lines 155-166
M_HistListNext ==
    /\ pc = "hist_list_next"
    /\ HistList(result.nextPageToken)

\* get_ids_to_update(messages) at lines 150, 167 and 321
Classify(next_pc) ==
    /\ \E d \in BatchDurations :
          LET r == get_ids_to_update(message_ids, layout, failing, now, d)
          IN  /\ ids_to_update' = r.ids
              /\ cm' = r.cm
              /\ now' = r.cm.now
              /\ trace' = Append(trace, Event("classify", <<>>, r.ids, <<>>))
    /\ pc' = next_pc
    /\ UNCHANGED <<layout, message_ids, failing, cm_pc, ulVars, elVars, envVars,
                   credentials_file, branch, has_credentials, label_id, msg_labels, result,
                   start_time, sleep_arg, cleared, error>>

\* update_labels(ids, label_id) at lines 151, 168 and 322, no call raising
Update(next_pc) ==
    /\ ul_calls' = update_labels(ids_to_update, label_id)
    /\ msg_labels' = ApplyCalls(msg_labels, ul_calls')
    /\ trace' = Append(trace, Event("update", <<>>, ids_to_update, <<>>))
    /\ pc' = next_pc
    /\ UNCHANGED <<cmVars, ul_ids, ul_label, ul_i, ul_pc, elVars, envVars,
                   credentials_file, branch, has_credentials, label_id, result, ids_to_update,
                   start_time, now, sleep_arg, cleared, error>>

\* update_labels whose k-th batchModify raises: the earlier chunks are applied
UpdateRaises ==
    /\ \E k \in 1..Len(update_labels(ids_to_update, label_id)) :
          /\ ul_calls' = SubSeq(update_labels(ids_to_update, label_id), 1, k)
          /\ msg_labels' = ApplyCalls(msg_labels, SubSeq(ul_calls', 1, k - 1))
    /\ trace' = Append(trace, Event("update", <<>>, ids_to_update, <<>>))
    /\ Crash("modify")
    /\ UNCHANGED <<cmVars, ul_ids, ul_label, ul_i, ul_pc, elVars, envVars,
                   credentials_file, branch, has_credentials, label_id, result, ids_to_update,
                   start_time, now, sleep_arg, cleared>>

M_HistClassify ==
    /\ pc = "hist_classify"
    /\ Classify("hist_update")

\* a sweep that stops after its first page
HistContinue_never(res) == FALSE

\* while "nextPageToken" in result
HistContinue(res) == res.nextPageToken # <<>>

\* lines 151-153 and 168-170
M_HistUpdate ==
    /\ pc = "hist_update"
    /\ Update(IF HistContinue(result) THEN "hist_list_next" ELSE "live_list")

M_HistUpdateRaises ==
    /\ pc = "hist_update"
    /\ UpdateRaises

\* lines 313-319
M_LiveList ==
    /\ pc = "live_list"
    /\ \E dl \in ListDurations :
          /\ start_time' = 0
          /\ now' = dl
    /\ result' = ListPage(InboxMail, <<>>, page_limit)
    /\ message_ids' = result'.messages
    /\ trace' = <<Event("list", <<>>, result'.messages, result'.nextPageToken)>>
    /\ pc' = "live_classify"
    /\ UNCHANGED <<layout, failing, cm, cm_pc, ulVars, elVars, envVars,
                   credentials_file, branch, has_credentials, label_id, msg_labels, ids_to_update,
                   sleep_arg, cleared, error>>

\* a messages().list(...).execute() raises
M_ListRaises ==
    /\ pc \in {"hist_list_first", "hist_list_next", "live_list"}
    /\ Crash("list")
    /\ UNCHANGED <<cmVars, ulVars, elVars, envVars, credentials_file, branch, has_credentials,
                   label_id, msg_labels, result, ids_to_update, start_time, now,
                   sleep_arg, cleared, trace>>

\* line 321
M_LiveClassify ==
    /\ pc = "live_classify"
    /\ Classify("live_update")

\* line 322
M_LiveUpdate ==
    /\ pc = "live_update"
    /\ Update("live_sleep")

M_LiveUpdateRaises ==
    /\ pc = "live_update"
    /\ UpdateRaises

\* time.sleep(secs): ValueError when secs is negative
SleepRaises(secs) == secs < 0

\* the argument of the sleep at line 327
SleepArg(elapsed) == Period - elapsed

\* lines 323-327
M_LiveSleep ==
    /\ pc = "live_sleep"
    /\ cleared' = Len(ids_to_update)
    /\ sleep_arg' = SleepArg(now - start_time)
    /\ IF SleepRaises(sleep_arg')
       THEN Crash("sleep")
       ELSE /\ pc' = "live_list"
            /\ error' = error
    /\ trace' = Append(trace, Event("sleep", <<>>, <<>>, <<>>))
    /\ UNCHANGED <<cmVars, ulVars, elVars, envVars, credentials_file, branch, has_credentials,
                   label_id, msg_labels, result, ids_to_update, start_time, now>>

Next ==
    \/ M_NoSecret \/ M_Start \/ M_Login \/ M_LoginRaises
    \/ M_Ensure \/ M_EnsureRaises
    \/ M_HistListFirst \/ M_HistListNext \/ M_HistClassify
    \/ M_HistUpdate \/ M_HistUpdateRaises
    \/ M_LiveList \/ M_ListRaises \/ M_LiveClassify
    \/ M_LiveUpdate \/ M_LiveUpdateRaises \/ M_LiveSleep

Spec == Init /\ [][Next]_vars

\* ============================================================= properties
\* the Subject header of the message holds the tag
SubjectHasTag(id) ==
    \E k \in 1..Len(HeadersOf(layout, id)) :
        /\ HeadersOf(layout, id)[k].name = "Subject"
        /\ Contains(HeadersOf(layout, id)[k].value, TWINE_TAG)

CeilDiv(a, b) == (a + b - 1) \div b

RECURSIVE ConcatIds(_)
ConcatIds(calls) ==
    IF calls = <<>> THEN <<>> ELSE Head(calls).ids \o ConcatIds(Tail(calls))

\* C1: when every fetch succeeds, check_messages returns exactly the ids of
\* its input whose Subject holds the tag, for an input of any length.
C1_MatchSetExact ==
    (cm_pc = "returned" /\ failing = {}) =>
        Range(cm.results) = {id \in Range(message_ids) : SubjectHasTag(id)}

\* C2: when the fetch of one id fails and all the others succeed and match,
\* check_messages returns exactly the other ids, wherever the failing id is.
C2_OneFailureTolerated ==
    (/\ cm_pc = "returned"
     /\ failing # {}
     /\ \A id \in Range(message_ids) \ failing : SubjectHasTag(id)) =>
        Range(cm.results) = Range(message_ids) \ failing

\* C3: update_labels on n ids issues ceil(n / 1000) batchModify calls, each of
\* at most 1000 ids, all but the last of exactly 1000, and the ids of the
\* calls, put end to end, are the input list.
C3_ChunkedCalls ==
    ul_pc = "returned" =>
        /\ Len(ul_calls) = CeilDiv(Len(ul_ids), 1000)
        /\ \A k \in 1..Len(ul_calls) :
              /\ Len(ul_calls[k].ids) <= 1000
              /\ k < Len(ul_calls) => Len(ul_calls[k].ids) = 1000
        /\ ConcatIds(ul_calls) = ul_ids

C3_Witness ==
    /\ ul_pc = "returned"
    /\ Len(ul_ids) = 2500
    /\ Len(ul_calls) = 3
    /\ Len(ul_calls[1].ids) = 1000
    /\ Len(ul_calls[2].ids) = 1000
    /\ Len(ul_calls[3].ids) = 500

\* C4: consecutive calls of add_warming_label_if_not_present return the same
\* id, leave exactly one remote label named "Warming", the one returned, and
\* call create only when the listing held no label named "Warming".
C4_EnsureIdempotent ==
    /\ \A i, j \in 1..Len(el_returns) : el_returns[i] = el_returns[j]
    /\ Len(el_returns) >= 1 =>
          /\ Cardinality({k \in 1..Len(el_labels) : el_labels[k].name = "Warming"}) = 1
          /\ \E k \in 1..Len(el_labels) :
                el_labels[k].name = "Warming" /\ el_labels[k].id = el_returns[1]
    /\ \A k \in 1..Len(el_creates) : ~el_creates[k].hadWarming

C4_Witness ==
    /\ el_pc = "calling"
    /\ Len(el_returns) = 2
    /\ Len(el_creates) = 1

LastOp == IF trace = <<>> THEN None ELSE trace[Len(trace)].op

\* C5: every id passed to a batchModify call was fetched without error in an
\* executed micro-batch and has the tag in its Subject; a message whose fetch
\* fails or whose Subject lacks the tag keeps its labels.
C5_OnlyClassifiedMutated ==
    /\ \A k \in 1..Len(ul_calls) : \A id \in Range(ul_calls[k].ids) :
          /\ id \notin failing
          /\ SubjectHasTag(id)
          /\ LastOp = "update" =>
                \E b \in 1..Len(cm.executed) : id \in Range(cm.executed[b])
    /\ \A id \in 1..nmsgs :
          (id \in failing \/ ~SubjectHasTag(id)) => msg_labels[id] = {"INBOX"}

C5_Witness ==
    /\ pc = "live_sleep"
    /\ layout = "mixed"
    /\ failing # {}
    /\ failing \subseteq Range(message_ids)
    /\ ul_calls # <<>>
    /\ \E id \in 1..nmsgs : msg_labels[id] # {"INBOX"}

\* C6: a live iteration lists INBOX until the cursor is absent: when it goes
\* to sleep, the last listing result carried no cursor.
C6_LivePagesExhausted ==
    pc = "live_sleep" => result.nextPageToken = <<>>

\* the calls of the sweep so far: the trace of the start-up after its ensure
IsSweepTrace == trace # <<>> /\ trace[1].op = "ensure"
SweepCalls == Tail(trace)

RECURSIVE ConcatPages(_)
ConcatPages(events) ==
    IF events = <<>> THEN <<>>
    ELSE (IF Head(events).op = "list" THEN Head(events).ids ELSE <<>>)
             \o ConcatPages(Tail(events))

\* C7: the sweep lists with no cursor first and then with the cursor of the
\* previous listing, as long as a cursor is returned; every page listed is
\* classified and its matches passed to update_labels once, before the next
\* listing; the sweep ends at the page without a cursor, having listed all.
C7_SweepPagination ==
    IsSweepTrace =>
        /\ \A k \in 1..Len(SweepCalls) :
              LET e == SweepCalls[k]
              IN  /\ k % 3 = 1 =>
                        /\ e.op = "list"
                        /\ k = 1 => e.token = <<>>
                        /\ k > 1 => /\ SweepCalls[k - 3].next # <<>>
                                    /\ e.token = SweepCalls[k - 3].next
                  /\ k % 3 = 2 =>
                        /\ e.op = "classify"
                        /\ e.ids = get_ids_to_update(SweepCalls[k - 1].ids,
                                       layout, failing, 0, 0).ids
                  /\ k % 3 = 0 =>
                        /\ e.op = "update"
                        /\ e.ids = SweepCalls[k - 1].ids
        /\ pc = "hist_list_next" => LastOp = "update"
        /\ (pc = "live_list" /\ branch \in {"login", "forced"}) =>
              /\ Len(SweepCalls) >= 3
              /\ LastOp = "update"
              /\ SweepCalls[Len(SweepCalls) - 2].next = <<>>
              /\ ConcatPages(SweepCalls) = AllMail

C7_Witness ==
    /\ pc = "live_list"
    /\ IsSweepTrace
    /\ Len(SweepCalls) >= 9
    /\ \E k \in 1..Len(SweepCalls) :
          SweepCalls[k].op = "update" /\ SweepCalls[k].ids # <<>>

\* C8: the duration passed to the sleep of the live loop is never negative,
\* and the sleep does not end the process.
C8_SleepNeverNegative ==
    sleep_arg >= 0 /\ error.call # "sleep"

\* C9: a listing or batchModify call that fails in a live iteration does not
\* end the process.
C9_FailureKeepsLooping ==
    (error.call \in {"list", "modify"} /\ error.at \in {"live_list", "live_update"})
        => pc # "crashed"

\* C10: after every micro-batch executed inside the loop the run has slept
\* the remainder of the minimum interval, so the next micro-batch is submitted
\* at least one interval after the interval's start; a run that submitted b
\* micro-batches has taken at least (b - 1) intervals.
C10_Throttle ==
    /\ \A k \in 1..Len(cm.throttle) :
          LET t == cm.throttle[k]
          IN  /\ t.slept = Max(0, MinInterval - (t.finished - t.start))
              /\ k < Len(cm.submitted) =>
                    /\ cm.submitted[k + 1] >= t.finished + t.slept
                    /\ cm.submitted[k + 1] >= t.start + MinInterval
    /\ \A k \in 1..(Len(cm.submitted) - 1) :
          cm.submitted[k + 1] - cm.submitted[k] >= MinInterval
    /\ cm_pc = "returned" =>
          cm.now >= (Len(cm.executed) - 1) * MinInterval

C10_Witness ==
    /\ cm_pc = "returned"
    /\ Len(cm.executed) >= 3
    /\ \E k \in 1..Len(cm.throttle) : cm.throttle[k].slept > 0
    /\ \E k \in 1..Len(cm.throttle) : cm.throttle[k].slept = 0

ListedIds == {id \in Range(message_ids) : TRUE}
TaggedOf(ids) == SelectSeq(ids, LAMBDA id : SubjectHasTag(id))

\* C11: a live iteration passes to update_labels exactly the ids of the listed
\* page whose Subject holds the tag, and its summary line reports their count.
C11_LiveEndToEnd ==
    (LastOp = "sleep" /\ failing \cap ListedIds = {}) =>
        /\ ids_to_update = TaggedOf(message_ids)
        /\ trace[Len(trace) - 1].ids = TaggedOf(message_ids)
        /\ cleared = Len(TaggedOf(message_ids))

\* the decoded text of a text/plain or text/html part of the kind holds the tag
BodyKindHasTag ==
    [k \in 1..Len(BodyKinds) |->
        \E j \in 1..Len(BodyKinds[k]) :
            /\ BodyKinds[k][j].mimeType \in {"text/plain", "text/html"}
            /\ Contains(Utf8Decode(B64Decode(BodyKinds[k][j].body.data)), TWINE_TAG)]

BodyHasTag(id) == BodyKindHasTag[(id % 3) + 1]

SweepDone == pc = "live_list" /\ IsSweepTrace /\ branch \in {"login", "forced"}

\* C12 as stated: after the sweep, a message whose Subject lacks the tag but
\* whose decoded body holds it has been classified as warming and relabelled.
C12_BodyFallback ==
    (SweepDone /\ failing = {}) =>
        \A id \in 1..nmsgs :
            (BodyHasTag(id) /\ ~SubjectHasTag(id)) => msg_labels[id] # {"INBOX"}

\* C12 amended: the sweep classifies by the Subject header alone: every id it
\* passes to update_labels has the tag in its Subject, and a message whose
\* Subject lacks the tag keeps its labels even when its decoded body holds it.
C12_SweepSubjectOnly ==
    /\ IsSweepTrace =>
          \A k \in 1..Len(SweepCalls) :
              SweepCalls[k].op = "update" =>
                  \A id \in Range(SweepCalls[k].ids) : SubjectHasTag(id)
    /\ \A id \in 1..nmsgs :
          (BodyHasTag(id) /\ ~SubjectHasTag(id)) => msg_labels[id] = {"INBOX"}

C12_Witness ==
    /\ SweepDone
    /\ layout = "mixed"
    /\ \E id \in 1..nmsgs :
          BodyHasTag(id) /\ ~SubjectHasTag(id) /\ msg_labels[id] = {"INBOX"}
    /\ \E id \in 1..nmsgs : msg_labels[id] # {"INBOX"}

LivePcs == {"live_list", "live_classify", "live_update", "live_sleep"}
Ops(events) == [k \in 1..Len(events) |-> events[k].op]
IsPrefix(s, t) == Len(s) <= Len(t) /\ s = SubSeq(t, 1, Len(s))

\* C13 as stated: every run of the loop body starts with the ensure_label
\* step, so a sleep that returns is followed by ensure_label, not by the
\* listing call.
C13_EnsureEveryRun ==
    [][(pc = "live_sleep" /\ pc' # "crashed") => pc' = "ensure"]_vars

\* C13 amended: the label is ensured once per process, before the first
\* listing call; a run of the loop body is list, classify, update, sleep in
\* that order, in the sweep every update follows the classification of the
\* page listed just before it, and every bulk mutation adds the label id that
\* the one ensure step returned.
C13_LoopOrder ==
    /\ Len(el_returns) <= 1
    /\ (label_id # None) => el_returns = <<label_id>>
    /\ (pc \in LivePcs \cup {"hist_list_first", "hist_list_next",
                            "hist_classify", "hist_update"}) =>
           /\ label_id # None
           /\ \E k \in 1..Len(el_labels) :
                 el_labels[k].id = label_id /\ el_labels[k].name = "Warming"
    /\ (trace # <<>> /\ ~IsSweepTrace) =>
           IsPrefix(Ops(trace), <<"list", "classify", "update", "sleep">>)
    /\ IsSweepTrace =>
           \A k \in 1..Len(SweepCalls) :
               /\ SweepCalls[k].op = "list" => (k % 3 = 1)
               /\ SweepCalls[k].op = "classify" => (k % 3 = 2)
               /\ SweepCalls[k].op = "update" => (k % 3 = 0)
               /\ SweepCalls[k].op \in {"list", "classify", "update"}
    /\ \A k \in 1..Len(ul_calls) : ul_calls[k].addLabelIds = <<label_id>>

\* a second run of the loop body has issued a bulk mutation, and the label
\* was ensured once
C13_Witness ==
    /\ pc = "live_sleep"
    /\ cleared > 0
    /\ ul_calls # <<>>
    /\ Len(el_returns) = 1
    /\ ~IsSweepTrace

\* C14: every bulk-mutation call removes INBOX and adds the Warming label id
\* for the ids of its chunk, and in every state a message without the INBOX
\* label carries the Warming label.
C14_NeverOutOfInboxUnlabelled ==
    /\ \A k \in 1..Len(ul_calls) :
          /\ ul_calls[k].removeLabelIds = <<"INBOX">>
          /\ ul_calls[k].addLabelIds = <<label_id>>
          /\ ul_calls[k].ids # <<>>
    /\ \A id \in 1..nmsgs :
          "INBOX" \notin msg_labels[id] =>
              /\ label_id \in msg_labels[id]
              /\ \E k \in 1..Len(el_labels) :
                    el_labels[k].id = label_id /\ el_labels[k].name = "Warming"

\* some messages were taken out of the inbox and others were left in it
C14_Witness ==
    /\ \E id \in 1..nmsgs : msg_labels[id] = {label_id}
    /\ \E id \in 1..nmsgs : msg_labels[id] = {"INBOX"}
    /\ ul_calls # <<>>

\* the executed micro-batches that hold the id
BatchesOf(id) == {b \in 1..Len(cm.executed) : id \in Range(cm.executed[b])}

\* C15: every micro-batch that check_messages executes, inside the loop or
\* after it, holds at most 30 fetch requests, and so does the batch being
\* filled.
C15_BatchAtMost30 ==
    /\ \A b \in 1..Len(cm.executed) : Len(cm.executed[b]) <= max_batch_len
    /\ Len(cm.batch) <= max_batch_len

\* a batch of exactly 30 requests was executed inside the loop
C15_Witness ==
    /\ cm_pc = "loop"
    /\ \E b \in 1..Len(cm.executed) : Len(cm.executed[b]) = max_batch_len

\* C19: when check_messages returns, every input id was submitted in exactly
\* one executed micro-batch and no id is left in a batch never executed.
C19_EveryIdSubmittedOnce ==
    cm_pc = "returned" =>
        /\ \A id \in Range(message_ids) : Cardinality(BatchesOf(id)) = 1
        /\ cm.batch = <<>>

\* C20: every batch.execute() carries at least one fetch request, and none
\* is issued for an empty input.
C20_NoEmptyBatch ==
    /\ \A b \in 1..Len(cm.executed) : cm.executed[b] # <<>>
    /\ (cm_pc = "returned" /\ message_ids = <<>>) => cm.executed = <<>>

\* C16: the sweep ends at the page without a cursor, after that page was
\* classified and mutated, and lists no more; the live loop entered afterwards
\* is left only through a remote call that fails, never on its own.
C16_SweepEndsLiveLoopRuns ==
    /\ SweepDone =>
          /\ LastOp = "update"
          /\ SweepCalls[Len(SweepCalls) - 2].op = "list"
          /\ \A k \in 1..Len(SweepCalls) :
                (SweepCalls[k].op = "list" /\ SweepCalls[k].next = <<>>)
                    => k = Len(SweepCalls) - 2
    /\ (pc = "crashed" /\ error.at \in LivePcs) => error.call \in {"list", "modify"}

SweepWanted == ~has_credentials \/ force_historical

\* C17: the sweep starts only from the ensure step and exactly when stored
\* credentials were absent or the force flag was given; otherwise the ensure
\* step leads directly to the live loop; the live loop is entered from the
\* ensure step or from the update of the sweep's page without a cursor, and
\* is never left for the sweep or the ensure step again.
C17_SweepAtStartup ==
    [][ /\ (pc' = "hist_list_first" /\ pc # "hist_list_first") =>
               (pc = "ensure" /\ SweepWanted /\ trace = <<>>)
        /\ (pc = "ensure" /\ pc' \notin {"ensure", "crashed"}) =>
               pc' = IF SweepWanted THEN "hist_list_first" ELSE "live_list"
        /\ (pc' = "ensure" /\ pc # "ensure") =>
               (pc \in {"main", "login"} /\ el_returns = <<>>)
        /\ (pc' = "live_list" /\ pc \notin LivePcs) =>
               \/ pc = "ensure" /\ ~SweepWanted
               \/ pc = "hist_update" /\ SweepWanted /\ result.nextPageToken = <<>>
        /\ (pc \in LivePcs) => pc' \in LivePcs \cup {"crashed"}
      ]_vars

\* a process started with stored credentials and the force flag has swept
\* several pages and stands before its first live listing
C17_Witness ==
    /\ pc = "live_list"
    /\ has_credentials /\ force_historical
    /\ IsSweepTrace
    /\ Len(SweepCalls) >= 6

RECURSIVE ConcatBatches(_)
ConcatBatches(batches) ==
    IF batches = <<>> THEN <<>> ELSE Head(batches) \o ConcatBatches(Tail(batches))

\* C18: when the bulk mutation of a page is issued, every callback of the
\* fetches submitted for the page has run exactly once, in the order of
\* submission, and the ids handed to update_labels are the match collection
\* as classification left it.
C18_CollectBeforeMutate ==
    LastOp = "update" =>
        /\ Len(trace) >= 2
        /\ trace[Len(trace) - 1].op = "classify"
        /\ cm.results = SelectSeq(ConcatBatches(cm.executed),
                            LAMBDA id : id \notin failing /\ SubjectHasTag(id))
        /\ trace[Len(trace) - 1].ids = cm.results
        /\ ids_to_update = cm.results
        /\ trace[Len(trace)].ids = cm.results
        /\ IsPrefix(ConcatIds(ul_calls), cm.results)

\* a page of two micro-batches with several matches and a failing fetch was
\* classified and mutated
C18_Witness ==
    /\ LastOp = "update"
    /\ Len(cm.executed) >= 2
    /\ Len(cm.results) >= 2
    /\ failing # {}
    /\ ul_calls # <<>>
====
